---- MODULE Spec2Model ----
(***************************************************************************)
(* Model of src/main.py: extract_text (OCR dispatch and line               *)
(* normalisation) and lookup_metadata (per-query MusicBrainz and Spotify   *)
(* lookups), with the part of main that builds the Spotify client.         *)
(*                                                                         *)
(* Spec        : main's credentials, then lookup_metadata called MaxCalls  *)
(*               times on the same lines against mocked providers.         *)
(* SpecExtract : one call of extract_text.                                 *)
(***************************************************************************)
EXTENDS Naturals, Sequences, FiniteSets, TLC

VARIABLES
    \* ---- main / lookup_metadata ----
    spotify_client_id,      \* sidebar input (main, line 98)
    spotify_client_secret,  \* sidebar input (main, line 99)
    spotify_client,         \* main, lines 105-109
    lines,                  \* the argument `lines` of lookup_metadata
    useragent,              \* musicbrainzngs module state (line 34)
    pc,                     \* position inside lookup_metadata
    call,                   \* number of calls of lookup_metadata started
    variant,                \* how the mocked providers answer in this call
    results,                \* local `results`
    i,                      \* position of the for loop in `lines` (1-based)
    entry,                  \* local `entry`
    mbid, artist, title, cover_url, spotify_id,   \* function-scoped locals
    calls,                  \* remote calls issued during the current call
    returned,               \* what each finished call returned
    mbResp, spResp,         \* the mocked providers' answer per query
    \* ---- extract_text ----
    openai_client,          \* argument of extract_text
    exPc,                   \* position inside extract_text
    text,                   \* local `text`
    exLines,                \* the returned list
    engines,                \* OCR engines invoked, in order
    hostedFailed            \* the hosted call raised

lookupVars == << spotify_client_id, spotify_client_secret, spotify_client, lines,
                 useragent, pc, call, variant, results, i, entry,
                 mbid, artist, title, cover_url, spotify_id,
                 calls, returned, mbResp, spResp >>

extractVars == << openai_client, exPc, text, exLines, engines, hostedFailed >>

vars == << lookupVars, extractVars >>

----------------------------------------------------------------------------
(* Bounds of the model *)

MaxLines == 2

MaxCalls == 2

MaxTextLen == 4

----------------------------------------------------------------------------
(* Values *)

\* Python's None, and a local that has not been assigned yet
None == << "None" >>

Unbound == << "unbound" >>

NoClient == "None"

Queries == { "q1", "q2" }

Unasked == "unasked"

\* `entry` before the loop has bound it
NoEntry == [query_text |-> "", matches |-> << >>]

\* What MusicBrainz (search, then the cover-art archive) does for one query
MBOutcomes == { "search_error", "no_release", "bad_release",
                "art_fetch_error", "art_bad_json", "art_no_images", "art_images" }

MBErrorOutcomes == { "search_error", "bad_release", "art_fetch_error", "art_bad_json" }

\* What the Spotify search does for one query
SPOutcomes == { "search_error", "no_items", "bad_item", "item_no_image", "item_image" }

SPErrorOutcomes == { "search_error", "bad_item" }

Variants == { "same", "mb_quiet", "sp_quiet" }

\* Exception classes the providers' blocks can raise; all derive from Exception
ExceptionClasses == { "WebServiceError", "KeyError", "ConnectionError",
                      "JSONDecodeError", "SpotifyException" }

SeqsUpTo(S, n) == UNION { [1..k -> S] : k \in 0..n }

----------------------------------------------------------------------------
(* main: the Spotify client is built only from both credentials *)

\* `or` in place of `and`: one credential is enough
MakeSpotifyClientEither(id, secret) ==
    IF id # "" \/ secret # "" THEN "spotipy.Spotify" ELSE NoClient

MakeSpotifyClient(id, secret) ==
    IF id # "" /\ secret # "" THEN "spotipy.Spotify" ELSE NoClient

----------------------------------------------------------------------------
(* The mocked providers: an answer is drawn the first time a query is asked *)
(* and replayed afterwards; a quiet provider finds nothing.                 *)

MBEnv(q) ==
    IF variant = "mb_quiet" THEN { "no_release" }
    ELSE IF mbResp[q] = Unasked THEN MBOutcomes ELSE { mbResp[q] }

SPEnv(q) ==
    IF variant = "sp_quiet" THEN { "no_items" }
    ELSE IF spResp[q] = Unasked THEN SPOutcomes ELSE { spResp[q] }

MBRecord(q, o) == IF variant = "mb_quiet" THEN mbResp ELSE [mbResp EXCEPT ![q] = o]

SPRecord(q, o) == IF variant = "sp_quiet" THEN spResp ELSE [spResp EXCEPT ![q] = o]

\* musicbrainzngs.search_releases(query=q, limit=1)
MBSearchResponse(q, o) ==
    CASE o = "search_error" -> [raises |-> TRUE, exc |-> "WebServiceError"]
      [] o = "no_release"   -> [raises |-> FALSE, release_list |-> << >>]
      [] o = "bad_release"  -> [raises |-> FALSE, release_list |->
                                 << [id |-> <<"mbid", q>>, title |-> <<"mb-title", q>>] >>]
      [] OTHER              -> [raises |-> FALSE, release_list |->
                                 << [id |-> <<"mbid", q>>, title |-> <<"mb-title", q>>,
                                     artist_credit |-> <<"mb-artist", q>>] >>]

\* requests.get(coverartarchive...) followed by .json()
CoverArtResponse(q, o) ==
    CASE o = "art_fetch_error" -> [raises |-> TRUE, exc |-> "ConnectionError"]
      [] o = "art_bad_json"    -> [raises |-> FALSE, json_ok |-> FALSE]
      [] o = "art_no_images"   -> [raises |-> FALSE, json_ok |-> TRUE, images |-> << >>]
      [] OTHER                 -> [raises |-> FALSE, json_ok |-> TRUE,
                                   images |-> << [image |-> <<"mb-cover", q>>] >>]

\* spotify_client.search(q=q, type='album', limit=1)
SpotifySearchResponse(q, o) ==
    CASE o = "search_error"  -> [raises |-> TRUE, exc |-> "SpotifyException"]
      [] o = "no_items"      -> [raises |-> FALSE, items |-> << >>]
      [] o = "bad_item"      -> [raises |-> FALSE, items |->
                                  << [artists |-> <<"sp-artist", q>>, name |-> <<"sp-title", q>>,
                                      images |-> << >>] >>]
      [] o = "item_no_image" -> [raises |-> FALSE, items |->
                                  << [artists |-> <<"sp-artist", q>>, name |-> <<"sp-title", q>>,
                                      images |-> << >>, id |-> <<"sp-id", q>>] >>]
      [] OTHER               -> [raises |-> FALSE, items |->
                                  << [artists |-> <<"sp-artist", q>>, name |-> <<"sp-title", q>>,
                                      images |-> << [url |-> <<"sp-cover", q>>] >>,
                                      id |-> <<"sp-id", q>>] >>]

----------------------------------------------------------------------------
(* lookup_metadata: the pieces of its body *)

\* results carried over from the previous call (a shared default list)
KeepResults(old) == old

\* line 35: results = []
FreshResults(old) == << >>

\* the entry of the previous query reused: its matches are not reset
NewEntryKeepsMatches(q) == [query_text |-> q, matches |-> entry.matches]

\* line 37: entry = {"query_text": query, "matches": []}
NewEntry(q) == [query_text |-> q, matches |-> << >>]

\* a handler that catches KeyError only
CaughtOnlyKeyError(exc) == exc = "KeyError"

\* lines 59 and 79: except Exception
CaughtByExcept(exc) == exc \in ExceptionClasses

\* a handler that gives up on the query: the Spotify block is skipped
SkipSpotifyAfterMBError == "append"

\* a handler that tries MusicBrainz again
RetryMBAfterError == "mb"

\* lines 59-62: the handler is `pass`, control falls through to the Spotify block
PcAfterMBExcept == "sp"

\* lines 52-58
MBMatch(a, t, id, cover) ==
    [source |-> "MusicBrainz", artist |-> a, title |-> t, mbid |-> id,
     cover_art_url |-> cover]

\* line 52: entry['matches'].append(...)
AppendMBMatch(matches, m) == Append(matches, m)

\* line 62: if spotify_client:
SpotifyEnabled(client) == client # NoClient

\* lines 72-78
SpotifyMatch(a, t, id, cover) ==
    [source |-> "Spotify", artist |-> a, title |-> t, spotify_id |-> id,
     cover_art_url |-> cover]

\* insert(0, ...) instead of append
PrependSpotifyMatch(matches, m) == << m >> \o matches

\* line 72: entry['matches'].append(...)
AppendSpotifyMatch(matches, m) == Append(matches, m)

\* entries without a match left out of the results
ResultsAppendMatched(res, e) == IF e.matches = << >> THEN res ELSE Append(res, e)

\* line 81: results.append(entry)
ResultsAppend(res, e) == Append(res, e)

Call(provider, kind, idx, ok) ==
    [provider |-> provider, kind |-> kind, idx |-> idx, ok |-> ok]

query == lines[i]

locals == << mbid, artist, title, cover_url, spotify_id >>

config == << spotify_client_id, spotify_client_secret, spotify_client, lines >>

----------------------------------------------------------------------------
(* lookup_metadata: the steps *)

\* The call itself, lines 34-35.  The first call meets the providers as they
\* are; a later call meets the same answers, or one provider gone quiet.
StartCall ==
    /\ pc = "idle"
    /\ call < MaxCalls
    /\ call' = call + 1
    /\ \E v \in (IF call = 0 THEN { "same" } ELSE Variants) : variant' = v
    /\ useragent' = << "CDIdentifierApp", "1.0", "https://example.com" >>
    /\ results' = FreshResults(results)
    /\ i' = 1
    /\ entry' = NoEntry
    /\ mbid' = Unbound /\ artist' = Unbound /\ title' = Unbound
    /\ cover_url' = Unbound /\ spotify_id' = Unbound
    /\ calls' = << >>
    /\ pc' = "loop"
    /\ UNCHANGED << config, returned, mbResp, spResp, extractVars >>

\* lines 36-37: the next query of the for loop
BeginQuery ==
    /\ pc = "loop"
    /\ i <= Len(lines)
    /\ entry' = NewEntry(query)
    /\ pc' = "mb"
    /\ UNCHANGED << config, useragent, call, variant, results, i, locals, calls,
                    returned, mbResp, spResp, extractVars >>

\* lines 39-47: the MusicBrainz search and the extraction of its first release
MBSearch ==
    /\ pc = "mb"
    /\ \E o \in MBEnv(query) :
        LET resp == MBSearchResponse(query, o) IN
        /\ mbResp' = MBRecord(query, o)
        /\ calls' = Append(calls, Call("MusicBrainz", "search", i, ~resp.raises))
        /\ IF resp.raises
           THEN /\ pc' = IF CaughtByExcept(resp.exc) THEN PcAfterMBExcept ELSE "raised"
                /\ UNCHANGED locals
           ELSE IF resp.release_list = << >>
           THEN /\ pc' = "sp"
                /\ UNCHANGED locals
           ELSE LET r == resp.release_list[1] IN
                IF "artist_credit" \notin DOMAIN r
                THEN \* line 44 ran, line 45 raises KeyError
                     /\ mbid' = r.id
                     /\ pc' = IF CaughtByExcept("KeyError") THEN PcAfterMBExcept ELSE "raised"
                     /\ UNCHANGED << artist, title, cover_url, spotify_id >>
                ELSE /\ mbid' = r.id
                     /\ artist' = r.artist_credit
                     /\ title' = r.title
                     /\ cover_url' = None
                     /\ pc' = "art"
                     /\ UNCHANGED spotify_id
    /\ UNCHANGED << config, useragent, call, variant, results, i, entry,
                    returned, spResp, extractVars >>

\* lines 48-58: the dependent cover-art fetch, then the append of the match
CoverArt ==
    /\ pc = "art"
    /\ LET resp == CoverArtResponse(query, mbResp[query]) IN
       /\ calls' = Append(calls, Call("MusicBrainz", "cover_art", i, ~resp.raises))
       /\ IF resp.raises
          THEN /\ pc' = IF CaughtByExcept(resp.exc) THEN PcAfterMBExcept ELSE "raised"
               /\ UNCHANGED << cover_url, entry >>
          ELSE IF ~resp.json_ok
          THEN /\ pc' = IF CaughtByExcept("JSONDecodeError") THEN PcAfterMBExcept ELSE "raised"
               /\ UNCHANGED << cover_url, entry >>
          ELSE LET cover == IF resp.images # << >> THEN resp.images[1].image ELSE cover_url IN
               /\ cover_url' = cover
               /\ entry' = [entry EXCEPT !.matches =
                              AppendMBMatch(@, MBMatch(artist, title, mbid, cover))]
               /\ pc' = "sp"
    /\ UNCHANGED << config, useragent, call, variant, results, i,
                    mbid, artist, title, spotify_id, returned, mbResp, spResp,
                    extractVars >>

\* lines 62-80 with a client: the Spotify search and the extraction of its first album
SpotifyLookup ==
    /\ pc = "sp"
    /\ SpotifyEnabled(spotify_client)
    /\ \E o \in SPEnv(query) :
        LET resp == SpotifySearchResponse(query, o) IN
        /\ spResp' = SPRecord(query, o)
        /\ calls' = Append(calls, Call("Spotify", "search", i, ~resp.raises))
        /\ IF resp.raises
           THEN /\ pc' = IF CaughtByExcept(resp.exc) THEN "append" ELSE "raised"
                /\ UNCHANGED << locals, entry >>
           ELSE IF resp.items = << >>
           THEN /\ pc' = "append"
                /\ UNCHANGED << locals, entry >>
           ELSE LET alb   == resp.items[1]
                    cover == IF alb.images # << >> THEN alb.images[1].url ELSE None
                IN  /\ artist' = alb.artists
                    /\ title' = alb.name
                    /\ cover_url' = cover
                    /\ UNCHANGED mbid
                    /\ IF "id" \notin DOMAIN alb
                       THEN \* line 71 raises KeyError
                            /\ pc' = IF CaughtByExcept("KeyError") THEN "append" ELSE "raised"
                            /\ UNCHANGED << spotify_id, entry >>
                       ELSE /\ spotify_id' = alb.id
                            /\ entry' = [entry EXCEPT !.matches =
                                 AppendSpotifyMatch(@, SpotifyMatch(alb.artists, alb.name,
                                                                    alb.id, cover))]
                            /\ pc' = "append"
    /\ UNCHANGED << config, useragent, call, variant, results, i,
                    returned, mbResp, extractVars >>

\* line 62 without a client: the Spotify block is skipped
SpotifySkip ==
    /\ pc = "sp"
    /\ ~SpotifyEnabled(spotify_client)
    /\ pc' = "append"
    /\ UNCHANGED << config, useragent, call, variant, results, i, entry, locals,
                    calls, returned, mbResp, spResp, extractVars >>

\* line 81: results.append(entry), and on to the next query
AppendResult ==
    /\ pc = "append"
    /\ results' = ResultsAppend(results, entry)
    /\ i' = i + 1
    /\ pc' = "loop"
    /\ UNCHANGED << config, useragent, call, variant, entry, locals, calls,
                    returned, mbResp, spResp, extractVars >>

\* line 82: return results
Return ==
    /\ pc = "loop"
    /\ i > Len(lines)
    /\ returned' = Append(returned, [variant |-> variant, results |-> results])
    /\ pc' = "idle"
    /\ UNCHANGED << config, useragent, call, variant, results, i, entry, locals,
                    calls, mbResp, spResp, extractVars >>

ExtractIdle ==
    /\ openai_client = NoClient
    /\ exPc = "unused"
    /\ text = << >>
    /\ exLines = << >>
    /\ engines = << >>
    /\ hostedFailed = FALSE

Init ==
    /\ spotify_client_id \in { "", "client-id" }
    /\ spotify_client_secret \in { "", "client-secret" }
    /\ spotify_client = MakeSpotifyClient(spotify_client_id, spotify_client_secret)
    /\ lines \in SeqsUpTo(Queries, MaxLines)
    /\ useragent = None
    /\ pc = "idle"
    /\ call = 0
    /\ variant = "same"
    /\ results = << >>
    /\ i = 1
    /\ entry = NoEntry
    /\ mbid = Unbound /\ artist = Unbound /\ title = Unbound
    /\ cover_url = Unbound /\ spotify_id = Unbound
    /\ calls = << >>
    /\ returned = << >>
    /\ mbResp = [q \in Queries |-> Unasked]
    /\ spResp = [q \in Queries |-> Unasked]
    /\ ExtractIdle

Next ==
    \/ StartCall
    \/ BeginQuery
    \/ MBSearch
    \/ CoverArt
    \/ SpotifyLookup
    \/ SpotifySkip
    \/ AppendResult
    \/ Return

Spec == Init /\ [][Next]_vars

----------------------------------------------------------------------------
(* extract_text *)

\* Characters of the raw OCR text: two letters, a blank, and the line breaks
Chars == { "a", "b", " ", "\n", "\r" }

LineBreaks == { "\n", "\r" }

\* str.isspace
IsSpace(c) == c \in { " ", "\n", "\r" }

Texts == SeqsUpTo(Chars, MaxTextLen)

\* str.splitlines(): breaks at \n, \r and \r\n; no empty last line
RECURSIVE SplitFrom(_, _, _)
SplitFrom(t, p, cur) ==
    IF p > Len(t) THEN (IF cur = << >> THEN << >> ELSE << cur >>)
    ELSE IF t[p] = "\r" /\ p < Len(t) /\ t[p + 1] = "\n"
         THEN << cur >> \o SplitFrom(t, p + 2, << >>)
    ELSE IF t[p] \in LineBreaks
         THEN << cur >> \o SplitFrom(t, p + 1, << >>)
    ELSE SplitFrom(t, p + 1, Append(cur, t[p]))

SplitLines(t) == SplitFrom(t, 1, << >>)

RECURSIVE LStrip(_)
LStrip(s) == IF s # << >> /\ IsSpace(s[1]) THEN LStrip(Tail(s)) ELSE s

RECURSIVE RStrip(_)
RStrip(s) ==
    IF s # << >> /\ IsSpace(s[Len(s)]) THEN RStrip(SubSeq(s, 1, Len(s) - 1)) ELSE s

\* str.strip()
Strip(s) == RStrip(LStrip(s))

\* the filter `if line`: blank lines survive as empty strings
KeepLineUnstripped(line) == line # << >>

\* line 28: the filter `if line.strip()`
KeepLine(line) == Strip(line) # << >>

\* line 28: [line.strip() for line in text.splitlines() if line.strip()]
NormaliseLines(t) ==
    LET kept == SelectSeq(SplitLines(t), KeepLine)
    IN  [k \in 1..Len(kept) |-> Strip(kept[k])]

\* the hosted engine tried whether or not a client was given
UseHostedAlways(client) == TRUE

\* line 15: if openai_client:
UseHosted(client) == client # NoClient

\* lines 16-24: the hosted call; nothing catches what it raises
HostedOCR ==
    /\ exPc = "start"
    /\ UseHosted(openai_client)
    /\ engines' = Append(engines, "o4-mini")
    /\ \/ /\ hostedFailed' = TRUE
          /\ exPc' = "raised"
          /\ UNCHANGED text
       \/ /\ \E t \in Texts : text' = t
          /\ exPc' = "normalise"
          /\ UNCHANGED hostedFailed
    /\ UNCHANGED << openai_client, exLines, lookupVars >>

\* lines 26-27: Image.open and pytesseract.image_to_string
LocalOCR ==
    /\ exPc = "start"
    /\ ~UseHosted(openai_client)
    /\ engines' = Append(engines, "pytesseract")
    /\ \/ /\ exPc' = "raised"
          /\ UNCHANGED text
       \/ /\ \E t \in Texts : text' = t
          /\ exPc' = "normalise"
    /\ UNCHANGED << openai_client, exLines, hostedFailed, lookupVars >>

\* line 28
Normalise ==
    /\ exPc = "normalise"
    /\ exLines' = NormaliseLines(text)
    /\ exPc' = "returned"
    /\ UNCHANGED << openai_client, text, engines, hostedFailed, lookupVars >>

LookupIdle ==
    /\ spotify_client_id = ""
    /\ spotify_client_secret = ""
    /\ spotify_client = NoClient
    /\ lines = << >>
    /\ useragent = None
    /\ pc = "unused"
    /\ call = 0
    /\ variant = "same"
    /\ results = << >>
    /\ i = 1
    /\ entry = NoEntry
    /\ mbid = Unbound /\ artist = Unbound /\ title = Unbound
    /\ cover_url = Unbound /\ spotify_id = Unbound
    /\ calls = << >>
    /\ returned = << >>
    /\ mbResp = [q \in Queries |-> Unasked]
    /\ spResp = [q \in Queries |-> Unasked]

InitExtract ==
    /\ openai_client \in { NoClient, "openai" }
    /\ exPc = "start"
    /\ text = << >>
    /\ exLines = << >>
    /\ engines = << >>
    /\ hostedFailed = FALSE
    /\ LookupIdle

NextExtract ==
    \/ HostedOCR
    \/ LocalOCR
    \/ Normalise

SpecExtract == InitExtract /\ [][NextExtract]_vars

----------------------------------------------------------------------------
(* Properties of lookup_metadata *)

\* Every entry in sight: the one being built, the current results, and the
\* results of the finished calls
AllEntries ==
    { entry } \cup { results[j] : j \in DOMAIN results } \cup
    UNION { { returned[k].results[j] : j \in DOMAIN returned[k].results } :
            k \in DOMAIN returned }

Sources(e) == { e.matches[a].source : a \in DOMAIN e.matches }

HasMatchFrom(e, src) == src \in Sources(e)

\* The answer the provider gives to query q in the current call
EffMB(q) == IF variant = "mb_quiet" THEN "no_release" ELSE mbResp[q]

EffSP(q) == IF variant = "sp_quiet" THEN "no_items" ELSE spResp[q]

Searched(provider, j) ==
    \E c \in DOMAIN calls :
        calls[c].provider = provider /\ calls[c].kind = "search" /\ calls[c].idx = j

CredentialsAbsent == spotify_client_id = "" \/ spotify_client_secret = ""

\* C1: a finished call returns exactly one entry per input line, in input
\* order, the i-th entry carrying the i-th line as query_text (entries with no
\* match included); while a call runs, results holds the entries of the lines
\* already processed.
C1_OneEntryPerLine ==
    /\ \A k \in DOMAIN returned :
          /\ Len(returned[k].results) = Len(lines)
          /\ \A j \in DOMAIN lines : returned[k].results[j].query_text = lines[j]
    /\ pc \in { "loop", "mb", "art", "sp", "append" } =>
          /\ Len(results) = i - 1
          /\ \A j \in DOMAIN results : results[j].query_text = lines[j]

C1_Witness ==
    /\ Len(returned) >= 1
    /\ Len(lines) = 2
    /\ returned[1].results[1].matches = << >>
    /\ returned[1].results[2].matches # << >>
    /\ mbResp[lines[1]] = "search_error"

\* C2: an error raised in a provider's block never leaves lookup_metadata, and
\* the provider that raised contributes no match to that query's entry.
C2_ErrorsContained ==
    /\ pc # "raised"
    /\ \A j \in DOMAIN results :
          /\ EffMB(lines[j]) \in MBErrorOutcomes => ~HasMatchFrom(results[j], "MusicBrainz")
          /\ EffSP(lines[j]) \in SPErrorOutcomes => ~HasMatchFrom(results[j], "Spotify")

C2_Witness ==
    /\ Len(results) = 2
    /\ variant = "same"
    /\ mbResp[lines[1]] = "art_bad_json"
    /\ spResp[lines[1]] = "bad_item"
    /\ mbResp[lines[2]] = "art_fetch_error"
    /\ spResp[lines[2]] = "search_error"
    /\ results[1].matches = << >>

\* C3: a provider that errors on every query stops nothing: every processed
\* query was searched at every active provider, and the call returns what it
\* returns when that provider merely finds nothing.
C3_AdapterIsolation ==
    /\ pc \in { "loop", "mb", "art", "sp", "append" } =>
          \A j \in 1..(i - 1) :
             /\ Searched("MusicBrainz", j)
             /\ SpotifyEnabled(spotify_client) => Searched("Spotify", j)
    /\ \A k \in DOMAIN returned :
          /\ ( /\ returned[k].variant = "mb_quiet"
               /\ \A j \in DOMAIN lines : mbResp[lines[j]] \in MBErrorOutcomes )
             => returned[k].results = returned[1].results
          /\ ( /\ returned[k].variant = "sp_quiet"
               /\ \A j \in DOMAIN lines : spResp[lines[j]] \in SPErrorOutcomes )
             => returned[k].results = returned[1].results

C3_Witness ==
    /\ Len(returned) >= 2
    /\ returned[2].variant = "mb_quiet"
    /\ Len(lines) = 2
    /\ mbResp[lines[1]] = "search_error"
    /\ mbResp[lines[2]] = "art_fetch_error"
    /\ HasMatchFrom(returned[1].results[1], "Spotify")
    /\ HasMatchFrom(returned[2].results[2], "Spotify")

NumProviders == IF SpotifyEnabled(spotify_client) THEN 2 ELSE 1

\* C4: an entry never holds more matches than there are active providers, and
\* never two matches of the same source.
C4_AtMostOnePerProvider ==
    \A e \in AllEntries :
        /\ Len(e.matches) <= NumProviders
        /\ \A a, b \in DOMAIN e.matches :
              e.matches[a].source = e.matches[b].source => a = b

C4_Witness ==
    /\ Len(returned) >= 1
    /\ Len(lines) = 2
    /\ Len(returned[1].results[1].matches) = 2
    /\ Len(returned[1].results[2].matches) = 1

\* C5: in an entry holding matches of both providers the MusicBrainz match
\* comes before the Spotify match.
C5_RegistrationOrder ==
    \A e \in AllEntries :
        \A a, b \in DOMAIN e.matches :
            (e.matches[a].source = "MusicBrainz" /\ e.matches[b].source = "Spotify")
               => a < b

C5_Witness ==
    /\ Len(results) >= 1
    /\ Len(results[1].matches) = 2
    /\ results[1].matches[1].source = "MusicBrainz"
    /\ results[1].matches[2].source = "Spotify"

\* C6: without a Spotify client (a credential missing) the Spotify search is
\* never issued and no entry holds a Spotify match, while MusicBrainz is still
\* searched for every processed query.
C6_NoClientNoSpotify ==
    (CredentialsAbsent \/ spotify_client = NoClient) =>
        /\ \A c \in DOMAIN calls : calls[c].provider # "Spotify"
        /\ \A e \in AllEntries : ~HasMatchFrom(e, "Spotify")
        /\ pc \in { "loop", "mb", "art", "sp", "append" } =>
              \A j \in 1..(i - 1) : Searched("MusicBrainz", j)

C6_Witness ==
    /\ spotify_client = NoClient
    /\ spotify_client_id # ""
    /\ pc = "loop"
    /\ i = 3
    /\ Len(calls) >= 3
    /\ HasMatchFrom(results[1], "MusicBrainz")

\* C7: within one call no remote call is repeated for the same query position
\* (one search per provider, one cover-art fetch), and once a remote call of a
\* provider has failed for a position, that provider issues no further call
\* for it.
C7_NoRetries ==
    \A a, b \in DOMAIN calls :
        a < b =>
          /\ ~( /\ calls[a].provider = calls[b].provider
                /\ calls[a].kind = calls[b].kind
                /\ calls[a].idx = calls[b].idx )
          /\ ~calls[a].ok =>
                ~(calls[a].provider = calls[b].provider /\ calls[a].idx = calls[b].idx)

C7_Witness ==
    /\ Len(calls) = 4
    /\ calls[1] = Call("MusicBrainz", "search", 1, FALSE)
    /\ calls[2] = Call("Spotify", "search", 1, FALSE)
    /\ calls[3] = Call("MusicBrainz", "search", 2, TRUE)
    /\ calls[4] = Call("MusicBrainz", "cover_art", 2, FALSE)
    /\ lines[1] # lines[2]

\* C9: with the providers' answers fixed per query, every later call on the
\* same lines and the same client returns what the first call returned.
C9_RepeatableCalls ==
    \A k \in DOMAIN returned :
        returned[k].variant = "same" => returned[k].results = returned[1].results

C9_Witness ==
    /\ Len(returned) >= 2
    /\ returned[2].variant = "same"
    /\ Len(lines) = 2
    /\ Len(returned[2].results[1].matches) = 2
    /\ returned[2].results[2].matches = << >>

----------------------------------------------------------------------------
(* Properties of extract_text *)

\* Position p of t lies between the first and the last non-blank character of
\* its line
NoBreak(t, a, b) == \A x \in a..b : t[x] \notin LineBreaks

InsideLine(t, p) ==
    /\ \E a \in 1..p : ~IsSpace(t[a]) /\ NoBreak(t, a, p)
    /\ \E b \in p..Len(t) : ~IsSpace(t[b]) /\ NoBreak(t, p, b)

RunStarts(t) ==
    { p \in DOMAIN t : InsideLine(t, p) /\ (p = 1 \/ ~InsideLine(t, p - 1)) }

RunEnd(t, p) ==
    CHOOSE e \in p..Len(t) :
        /\ \A x \in p..e : InsideLine(t, x)
        /\ e = Len(t) \/ ~InsideLine(t, e + 1)

\* The trimmed non-blank lines of t, read off the positions of t
TrimmedLines(t) ==
    LET starts == RunStarts(t)
        nth(k) == CHOOSE p \in starts : Cardinality({ x \in starts : x < p }) = k - 1
    IN  [k \in 1..Cardinality(starts) |-> SubSeq(t, nth(k), RunEnd(t, nth(k)))]

\* C8: the returned list is the trimmed non-blank lines of the raw text in
\* their order; every returned line is non-empty and neither starts nor ends
\* with whitespace; text without a non-blank character yields the empty list.
C8_Normalised ==
    exPc = "returned" =>
        /\ exLines = TrimmedLines(text)
        /\ \A k \in DOMAIN exLines :
              /\ exLines[k] # << >>
              /\ ~IsSpace(exLines[k][1])
              /\ ~IsSpace(exLines[k][Len(exLines[k])])
        /\ (\A p \in DOMAIN text : IsSpace(text[p])) => exLines = << >>

C8_Witness ==
    /\ exPc = "returned"
    /\ text = << " ", "a", "\n", " " >>
    /\ exLines = << << "a" >> >>

\* C10 as stated: whenever the hosted OCR is unavailable (no client, or the
\* hosted call failed) the text comes from pytesseract and the hosted path
\* does not make extract_text fail.
C10_FallbackOnHostedFailure ==
    (exPc \in { "returned", "raised" } /\ (openai_client = NoClient \/ hostedFailed)) =>
        /\ \E e \in DOMAIN engines : engines[e] = "pytesseract"
        /\ ~hostedFailed \/ exPc = "returned"

\* C10 amended: pytesseract is used exactly when no hosted client was
\* supplied; with a client only the hosted engine is called, and a hosted call
\* that fails ends extract_text with that error, no line sequence returned.
C10_LocalOnlyWithoutClient ==
    /\ openai_client = NoClient =>
          /\ \A e \in DOMAIN engines : engines[e] = "pytesseract"
          /\ exPc # "start" => engines = << "pytesseract" >>
          /\ ~hostedFailed
    /\ openai_client # NoClient =>
          /\ \A e \in DOMAIN engines : engines[e] = "o4-mini"
          /\ exPc # "start" => engines = << "o4-mini" >>
          /\ hostedFailed => (exPc = "raised" /\ exLines = << >>)

C10_Witness ==
    /\ openai_client # NoClient
    /\ hostedFailed
    /\ exPc = "raised"
    /\ engines = << "o4-mini" >>

====
